---- MODULE Spec2Model ----
(***************************************************************************)
(* A model of claudesrc: the Conversation tool-invocation loop             *)
(* (src/src/claudesrc/conversation.py), the Tool protocol                  *)
(* (src/src/claudesrc/tool.py), the reference tools and the transcript     *)
(* load/save of the driver script (src/scripts/main.py).                   *)
(*                                                                         *)
(* Python values are encoded as follows.  A dict is a record.  A list is a *)
(* sequence.  A value whose static type is the union "str | list" (the     *)
(* content of a MessageParam and of a ToolResultBlockParam) carries its    *)
(* runtime type: [str |-> s] or [list |-> seq].                            *)
(***************************************************************************)
EXTENDS Integers, Sequences, FiniteSets, TLC

VARIABLES
    tools,        \* Conversation.tools: dict name -> Tool
    api_tools,    \* Conversation.create_kwargs["tools"]: list of ToolParam
    turns,        \* Conversation.turns: list of MessageParam
    pc,           \* where the caller / user_prompt stands
    ret,          \* the message user_prompt returned (NoMessage if none)
    exc,          \* the exception that escaped user_prompt ("none" if none)
    base,         \* len(turns) when the current user_prompt call was entered
    nmodel,       \* model calls made by the current user_prompt call
    ntool,        \* call_tool invocations made by the current user_prompt call
    transcript,   \* transcript.json: NoFile or the JSON text (token sequence)
    seed,         \* the JSON text this process loaded into turns (NoFile if none)
    sent,         \* the messages argument of the current call's last model call
    message,      \* the message the current call's last model call returned
    called,       \* the current call's last call_tool: the tool, its argument
    log,          \* the model calls and call_tool calls of the current call
    failed,       \* whether a user_prompt call of this Conversation has raised
    probe         \* a call of a tool on its own: its input, then its result

vars == <<tools, api_tools, turns, pc, ret, exc, base, nmodel, ntool,
          transcript, seed, sent, message, called, log, failed, probe>>

(***************************************************************************)
(* Bounds of the model.                                                    *)
(***************************************************************************)
MaxTurns == 4       \* turns kept in one history
MaxBlocks == 2      \* content blocks in one model response
MaxToolRounds == 1  \* the maximum of tool dispatches a caller would configure
SearchSlack == 2    \* how far the rg line counts range from 0 and from the cap
MaxPaths == 2       \* paths in one list_paths request

Last(s) == s[Len(s)]

(***************************************************************************)
(* Tools (src/scripts/main.py) and the Tool protocol.                      *)
(***************************************************************************)
ListFiles(root) == [cls |-> "ListFiles", root |-> root]
SearchFiles(root) == [cls |-> "SearchFiles", root |-> root]

\* Tool.name: a class attribute of each tool class.
ToolName(t) == IF t.cls = "ListFiles" THEN "list_paths" ELSE "search_files"

\* Tool.description: a class attribute of each tool class.
ToolDescription(t) ==
    IF t.cls = "ListFiles" THEN "List files under one or more directories."
    ELSE "Search for files matching a regular expression."

\* Tool.input_schema = Params.model_json_schema(): the required fields.
ToolInputSchema(t) ==
    IF t.cls = "ListFiles" THEN [required |-> <<"path">>]
    ELSE [required |-> <<"pattern">>]

to_api_block(t) ==
    [name |-> ToolName(t),
     description |-> ToolDescription(t),
     input_schema |-> ToolInputSchema(t)]

\* The tool lists a caller may hand to Conversation(tools=...): that of
\* main() without ReadFiles, one without the search tool, and one with two
\* search tools over different roots.
ToolLists ==
    {<<ListFiles("linux"), SearchFiles("linux")>>,
     <<ListFiles("linux")>>,
     <<SearchFiles("linux"), SearchFiles("other")>>}

\* {t.name: t for t in tools}: a later tool of the same name replaces an
\* earlier one.
RECURSIVE DictByName(_)
DictByName(ts) ==
    IF ts = <<>> THEN <<>>
    ELSE LET front == DictByName(SubSeq(ts, 1, Len(ts) - 1))
             t == Last(ts)
         IN  (ToolName(t) :> t) @@ front

\* [to_api_block(tool) for tool in tools]
ApiBlocks(ts) == [i \in 1..Len(ts) |-> to_api_block(ts[i])]

(***************************************************************************)
(* Content blocks and turns.                                               *)
(***************************************************************************)
TextBlock(text) == [type |-> "text", text |-> text]
ToolUseBlock(id, name, input) ==
    [type |-> "tool_use", id |-> id, name |-> name, input |-> input]
ToolResultBlockParam(id, content, is_error) ==
    [tool_use_id |-> id, type |-> "tool_result", content |-> content,
     is_error |-> is_error]

\* Every turn is given the role "user".
MessageParamUser(role, content) == [role |-> "user", content |-> content]

\* MessageParam(role=..., content=...)
MessageParam(role, content) == [role |-> role, content |-> content]

PyStr(s) == [str |-> s]
PyList(l) == [list |-> l]
IsPyList(c) == DOMAIN c = {"list"}

\* isinstance(block, ToolUseBlock)
IsToolUse(b) == b.type = "tool_use"
IsToolResult(b) == b.type = "tool_result"

NoMessage == [role |-> "none"]
NoCall == [tool |-> "none"]
NoProbe == [tool |-> "none"]
NoFile == <<>>

(***************************************************************************)
(* The environment: prompts, model responses, tool inputs.                 *)
(***************************************************************************)
Prompts == {"What is the VFS?"}

\* Tool arguments the model may send (ToolUseBlock.input).
Inputs == {[path |-> "lib"], [pattern |-> "printk"]}
Names == {"search_files"}

\* The ids of the ToolUse blocks the service issues: never one twice.
IdPool == <<"toolu_01", "toolu_02", "toolu_03", "toolu_04", "toolu_05",
            "toolu_06", "toolu_07", "toolu_08", "toolu_09", "toolu_10",
            "toolu_11", "toolu_12">>

\* What a response block is before the service gives it an id.
Shapes == {[type |-> "text"]}
          \cup [type : {"tool_use"}, name : Names, input : Inputs]
Responses == UNION {[1..n -> Shapes] : n \in 1..MaxBlocks}

RECURSIVE CountToolUse(_)
CountToolUse(blocks) ==
    IF blocks = <<>> THEN 0
    ELSE (IF IsToolUse(Head(blocks)) THEN 1 ELSE 0) + CountToolUse(Tail(blocks))

RECURSIVE IssuedIds(_)
IssuedIds(ts) ==
    IF ts = <<>> THEN 0
    ELSE (IF ts[1].role = "assistant" /\ IsPyList(ts[1].content)
          THEN CountToolUse(ts[1].content.list) ELSE 0) + IssuedIds(Tail(ts))

\* message.content of the response of shape sh, made when n ids were issued.
Content(sh, n) ==
    [i \in 1..Len(sh) |->
        IF sh[i].type = "text" THEN TextBlock("text")
        ELSE ToolUseBlock(IdPool[n + 1 + CountToolUse(SubSeq(sh, 1, i - 1))],
                          sh[i].name, sh[i].input)]

(***************************************************************************)
(* call_tool of the reference tools, as the loop sees it: a returned       *)
(* string or a raised exception.                                           *)
(***************************************************************************)
Returned(s) == [raised |-> "none", value |-> s]
Raised(e) == [raised |-> e, value |-> ""]

\* Params.model_validate(raw): a missing required field is a ValidationError.
Validates(t, raw) ==
    \A i \in 1..Len(ToolInputSchema(t).required) :
        ToolInputSchema(t).required[i] \in DOMAIN raw

\* The exit statuses of the rg process.
RgStatus == {0, 1, 2}

call_tool(t, raw, rc) ==
    IF ~Validates(t, raw) THEN Raised("ValidationError")
    ELSE IF t.cls = "ListFiles" THEN Returned("Directory listing: lib/")
    ELSE IF rc = 0 THEN Returned("fs/namei.c:1:printk")
    ELSE IF rc = 1 THEN Returned("<no matches>")
    ELSE Raised("CalledProcessError")

(***************************************************************************)
(* json.dump and json.load (src/scripts/main.py, lines 292-301).  The JSON *)
(* text is its sequence of tokens, the "," and ":" separators left out: a  *)
(* punctuation mark [p |-> ..], a string [s |-> ..] (an object's key or a  *)
(* value), a literal [lit |-> ..].                                         *)
(***************************************************************************)
LBrace == [p |-> "{"]
RBrace == [p |-> "}"]
LBracket == [p |-> "["]
RBracket == [p |-> "]"]
JStr(s) == [s |-> s]
JBool(b) == [lit |-> IF b THEN "true" ELSE "false"]

RECURSIVE Flatten(_)
Flatten(ss) == IF ss = <<>> THEN <<>> ELSE Head(ss) \o Flatten(Tail(ss))

\* A dict of strings, its keys in a fixed order.
RECURSIVE DumpsMembers(_, _)
DumpsMembers(d, keys) ==
    IF keys = {} THEN <<>>
    ELSE LET k == CHOOSE x \in keys : TRUE
         IN  <<JStr(k), JStr(d[k])>> \o DumpsMembers(d, keys \ {k})
DumpsDict(d) == <<LBrace>> \o DumpsMembers(d, DOMAIN d) \o <<RBrace>>

\* A value of type str | list: a JSON string or a JSON array.
DumpsUnion(c, items) ==
    IF IsPyList(c) THEN <<LBracket>> \o items \o <<RBracket>>
    ELSE <<JStr(c.str)>>

\* A ToolResult block written without its is_error key.
DumpsBlockNoFlag(b) ==
    IF b.type = "text"
    THEN <<LBrace, JStr("text"), JStr(b.text), JStr("type"), JStr(b.type),
           RBrace>>
    ELSE IF b.type = "tool_use"
    THEN <<LBrace, JStr("id"), JStr(b.id), JStr("input")>>
         \o DumpsDict(b.input)
         \o <<JStr("name"), JStr(b.name), JStr("type"), JStr(b.type), RBrace>>
    ELSE <<LBrace, JStr("tool_use_id"), JStr(b.tool_use_id),
           JStr("type"), JStr(b.type), JStr("content")>>
         \o DumpsUnion(b.content, <<>>)
         \o <<RBrace>>

\* One content block: a dict with the keys of its type.
DumpsBlock(b) ==
    IF b.type = "text"
    THEN <<LBrace, JStr("text"), JStr(b.text), JStr("type"), JStr(b.type),
           RBrace>>
    ELSE IF b.type = "tool_use"
    THEN <<LBrace, JStr("id"), JStr(b.id), JStr("input")>>
         \o DumpsDict(b.input)
         \o <<JStr("name"), JStr(b.name), JStr("type"), JStr(b.type), RBrace>>
    ELSE <<LBrace, JStr("tool_use_id"), JStr(b.tool_use_id),
           JStr("type"), JStr(b.type), JStr("content")>>
         \o DumpsUnion(b.content, <<>>)
         \o <<JStr("is_error"), JBool(b.is_error), RBrace>>

DumpsTurn(t) ==
    <<LBrace, JStr("role"), JStr(t.role), JStr("content")>>
    \o DumpsUnion(t.content,
          IF IsPyList(t.content)
          THEN Flatten([i \in 1..Len(t.content.list) |->
                            DumpsBlock(t.content.list[i])])
          ELSE <<>>)
    \o <<RBrace>>

\* json.dump(convo.turns[-2:], fh): only the last exchange is written.
json_dumps_tail(ts) ==
    LET new == SubSeq(ts, Len(ts) - 1, Len(ts))
    IN  <<LBracket>> \o Flatten([i \in 1..Len(new) |-> DumpsTurn(new[i])])
        \o <<RBracket>>

\* json.dump(convo.turns, fh)
json_dumps(ts) ==
    <<LBracket>> \o Flatten([i \in 1..Len(ts) |-> DumpsTurn(ts[i])])
    \o <<RBracket>>

\* json.load: one value read off the front of the tokens, and the rest.
\* An array is a list, an object a dict, a string a str, a literal a bool;
\* the value of a "content" key carries its type.
RECURSIVE ParseValue(_), ParseArray(_, _), ParseObject(_, _)
ParseValue(toks) ==
    LET h == Head(toks)
    IN  IF "s" \in DOMAIN h THEN [v |-> h.s, rest |-> Tail(toks)]
        ELSE IF "lit" \in DOMAIN h
        THEN [v |-> (h.lit = "true"), rest |-> Tail(toks)]
        ELSE IF h = LBracket THEN ParseArray(Tail(toks), <<>>)
        ELSE ParseObject(Tail(toks), <<>>)
ParseArray(toks, acc) ==
    IF Head(toks) = RBracket THEN [v |-> acc, rest |-> Tail(toks)]
    ELSE LET r == ParseValue(toks)
         IN  ParseArray(r.rest, Append(acc, r.v))
ParseObject(toks, acc) ==
    IF Head(toks) = RBrace THEN [v |-> acc, rest |-> Tail(toks)]
    ELSE LET key == Head(toks).s
             r == ParseValue(Tail(toks))
             val == IF key # "content" THEN r.v
                    ELSE IF toks[2] = LBracket THEN PyList(r.v)
                    ELSE PyStr(r.v)
         IN  ParseObject(r.rest, acc @@ (key :> val))

\* messages = json.load(fh)
json_load(text) == ParseValue(text).v

(***************************************************************************)
(* Conversation.__init__                                                   *)
(***************************************************************************)
Init ==
    \E ts \in ToolLists :
        /\ tools = DictByName(ts)
        /\ api_tools = ApiBlocks(ts)
        /\ turns = <<>>
        /\ pc = "ready"
        /\ ret = NoMessage
        /\ exc = "none"
        /\ base = 0
        /\ nmodel = 0
        /\ ntool = 0
        /\ transcript = NoFile
        /\ seed = NoFile
        /\ sent = <<>>
        /\ message = NoMessage
        /\ called = NoCall
        /\ log = <<>>
        /\ failed = FALSE
        /\ probe = NoProbe

(***************************************************************************)
(* Conversation.user_prompt                                                *)
(***************************************************************************)
Idle == pc \in {"ready", "returned", "raised"}

\* self.turns = [turn]: the history is overwritten.
AppendTurnReset(ts, turn) == <<turn>>

\* self.turns.append(turn)
AppendTurn(ts, turn) == Append(ts, turn)

\* Lines 36-41: the prompt is appended and the loop is entered.  A fresh
\* process that finds a transcript loads it first (main, lines 292-297).
UserPrompt ==
    /\ Idle
    /\ pc = "ready" => (transcript = NoFile \/ seed # NoFile)
    /\ Len(turns) < MaxTurns
    /\ \E p \in Prompts :
        turns' = AppendTurn(turns, MessageParam("user", PyStr(p)))
    /\ pc' = "calling"
    /\ ret' = NoMessage
    /\ exc' = "none"
    /\ base' = Len(turns)
    /\ nmodel' = 0
    /\ ntool' = 0
    /\ sent' = <<>>
    /\ message' = NoMessage
    /\ called' = NoCall
    /\ log' = <<>>
    /\ UNCHANGED <<tools, api_tools, transcript, seed, failed, probe>>

\* A test of any block of the response instead of the last one.
WantsToolAny(content) == \E i \in 1..Len(content) : IsToolUse(content[i])

\* The test of line 56 on the response's blocks.
WantsTool(content) == IsToolUse(Last(content))

\* messages=self.turns[base:]: only the turns of the current call are sent.
MessagesOfCall(ts) == SubSeq(ts, base + 1, Len(ts))

\* Line 46: messages=self.turns
Messages(ts) == ts

\* Only the last block of the response is kept.
dump_python_last(content) == <<Last(content)>>

\* Line 51: CONTENT_ADAPTER.dump_python(message.content)
dump_python(content) == content

\* Lines 44-56 and 76: client.messages.create returns a message; it is
\* appended; its last block decides between dispatch and return.
ModelReturns ==
    /\ pc = "calling"
    /\ Len(turns) < MaxTurns
    /\ \E sh \in Responses :
        LET content == Content(sh, IssuedIds(turns))
            msg == [role |-> "assistant", content |-> content]
        IN  /\ message' = msg
            /\ turns' = AppendTurn(turns,
                            MessageParam(msg.role,
                                         PyList(dump_python(msg.content))))
            /\ IF WantsTool(msg.content)
               THEN pc' = "dispatching" /\ ret' = ret
               ELSE pc' = "returned" /\ ret' = msg
    /\ sent' = Messages(turns)
    /\ nmodel' = nmodel + 1
    /\ log' = Append(log, "model")
    /\ UNCHANGED <<tools, api_tools, exc, base, ntool, transcript, seed,
                   called, failed, probe>>

\* The failing call undoes the turns it had appended.
ModelRaisesRollback ==
    /\ pc = "calling"
    /\ pc' = "raised"
    /\ exc' = "APIError"
    /\ nmodel' = nmodel + 1
    /\ turns' = SubSeq(turns, 1, base)
    /\ sent' = Messages(turns)
    /\ log' = Append(log, "model")
    /\ failed' = TRUE
    /\ UNCHANGED <<tools, api_tools, ret, base, ntool, transcript, seed,
                   message, called, probe>>

\* Line 44: client.messages.create raises (a transport fault).
ModelRaises ==
    /\ pc = "calling"
    /\ pc' = "raised"
    /\ exc' = "APIError"
    /\ nmodel' = nmodel + 1
    /\ sent' = Messages(turns)
    /\ log' = Append(log, "model")
    /\ failed' = TRUE
    /\ UNCHANGED <<tools, api_tools, turns, ret, base, ntool, transcript, seed,
                   message, called, probe>>

\* The ToolUse block being dispatched: message.content[-1].
last == Last(Last(turns).content.list)

\* Line 58: self.tools[last.name] raises KeyError.
ToolLookupFails ==
    /\ pc = "dispatching"
    /\ last.name \notin DOMAIN tools
    /\ pc' = "raised"
    /\ exc' = "KeyError"
    /\ failed' = TRUE
    /\ UNCHANGED <<tools, api_tools, turns, ret, base, nmodel, ntool,
                   transcript, seed, sent, message, called, log, probe>>

\* The first tool handed to the Conversation, whatever the name asked for.
LookupFirst(name) == tools[api_tools[1].name]

\* Line 58: tool = self.tools[last.name]
Lookup(name) == tools[name]

\* Line 59: tool.call_tool(last.input) raises.
ToolRaises ==
    /\ pc = "dispatching"
    /\ last.name \in DOMAIN tools
    /\ \E rc \in RgStatus :
        LET response == call_tool(Lookup(last.name), last.input, rc)
        IN  /\ response.raised # "none"
            /\ exc' = response.raised
    /\ called' = [tool |-> Lookup(last.name), input |-> last.input]
    /\ pc' = "raised"
    /\ ntool' = ntool + 1
    /\ log' = Append(log, "tool")
    /\ failed' = TRUE
    /\ UNCHANGED <<tools, api_tools, turns, ret, base, nmodel, transcript, seed,
                   sent, message, probe>>

\* Line 74 left out: after the result turn the call returns the message.
ToolReturnsFallsThrough ==
    /\ pc = "dispatching"
    /\ last.name \in DOMAIN tools
    /\ Len(turns) < MaxTurns
    /\ \E rc \in RgStatus :
        LET response == call_tool(Lookup(last.name), last.input, rc)
        IN  /\ response.raised = "none"
            /\ turns' = AppendTurn(turns,
                 MessageParam("user",
                    PyList(<<ToolResultBlockParam(last.id,
                                PyStr(response.value), FALSE)>>)))
    /\ called' = [tool |-> Lookup(last.name), input |-> last.input]
    /\ pc' = "returned"
    /\ ret' = message
    /\ ntool' = ntool + 1
    /\ log' = Append(log, "tool")
    /\ UNCHANGED <<tools, api_tools, exc, base, nmodel, transcript, seed,
                   sent, message, failed, probe>>

\* Lines 59-74: tool.call_tool(last.input) returns; the result turn is
\* appended and the loop goes round.
ToolReturns ==
    /\ pc = "dispatching"
    /\ last.name \in DOMAIN tools
    /\ Len(turns) < MaxTurns
    /\ \E rc \in RgStatus :
        LET response == call_tool(Lookup(last.name), last.input, rc)
        IN  /\ response.raised = "none"
            /\ turns' = AppendTurn(turns,
                 MessageParam("user",
                    PyList(<<ToolResultBlockParam(last.id,
                                PyStr(response.value), FALSE)>>)))
    /\ called' = [tool |-> Lookup(last.name), input |-> last.input]
    /\ pc' = "calling"
    /\ ntool' = ntool + 1
    /\ log' = Append(log, "tool")
    /\ UNCHANGED <<tools, api_tools, ret, exc, base, nmodel, transcript, seed,
                   sent, message, failed, probe>>

(***************************************************************************)
(* The driver (src/scripts/main.py, main): the transcript is loaded into   *)
(* a fresh Conversation when the file exists, and written after a prompt   *)
(* has returned.  The process ends; the next run builds a Conversation     *)
(* anew and finds the file.                                                *)
(***************************************************************************)
\* Lines 292-295: convo.turns = json.load(fh)
LoadTranscript ==
    /\ pc = "ready"
    /\ transcript # NoFile
    /\ seed = NoFile
    /\ turns' = json_load(transcript)
    /\ seed' = transcript
    /\ UNCHANGED <<tools, api_tools, pc, ret, exc, base, nmodel, ntool,
                   transcript, sent, message, called, log, failed, probe>>

\* Lines 300-301: json.dump(convo.turns, fh)
SaveTranscript ==
    /\ pc = "returned"
    /\ transcript' = json_dumps(turns)
    /\ UNCHANGED <<tools, api_tools, turns, pc, ret, exc, base, nmodel, ntool,
                   seed, sent, message, called, log, failed, probe>>

\* The process ends (main returns, or the exception ends it) and main runs
\* again: lines 284-290 build the Conversation anew; the file stays.  (With
\* no file written the new process is in an initial state again.)
Restart ==
    /\ pc \in {"returned", "raised"}
    /\ transcript # NoFile
    /\ turns' = <<>>
    /\ pc' = "ready"
    /\ ret' = NoMessage
    /\ exc' = "none"
    /\ base' = 0
    /\ nmodel' = 0
    /\ ntool' = 0
    /\ seed' = NoFile
    /\ sent' = <<>>
    /\ message' = NoMessage
    /\ called' = NoCall
    /\ log' = <<>>
    /\ failed' = FALSE
    /\ UNCHANGED <<tools, api_tools, transcript, probe>>

Next ==
    \/ LoadTranscript
    \/ SaveTranscript
    \/ Restart
    \/ UserPrompt
    \/ ModelReturns
    \/ ModelRaises
    \/ ToolLookupFails
    \/ ToolRaises
    \/ ToolReturns

Spec == Init /\ [][Next]_vars

(***************************************************************************)
(* user_prompt with a model and tools that answer: no call raises, every   *)
(* call is answered in the end, and the model asks only for what the       *)
(* registry can answer.  The model goes on asking for tools only as long   *)
(* as the history has room for the result and for the answer after it:     *)
(* within MaxTurns it comes to a response that does not end in a ToolUse.  *)
(***************************************************************************)
\* tool.call_tool(raw) can return.
CanReturn(t, raw) == \E rc \in RgStatus : call_tool(t, raw, rc).raised = "none"

\* Lines 36-41, with room in the history for the model's answer.
PromptAnswered ==
    /\ Len(turns) + 2 <= MaxTurns
    /\ UserPrompt

\* The loop goes round after a response that does not end in a ToolUse:
\* line 76 never returns.
ModelAnswersNoReturn ==
    /\ pc = "calling"
    /\ Len(turns) < MaxTurns
    /\ \E sh \in Responses :
        LET content == Content(sh, IssuedIds(turns))
            msg == [role |-> "assistant", content |-> content]
        IN  /\ message' = msg
            /\ turns' = AppendTurn(turns,
                            MessageParam(msg.role,
                                         PyList(dump_python(msg.content))))
            /\ IF WantsTool(msg.content)
               THEN /\ pc' = "dispatching"
                    /\ Len(turns') + 2 <= MaxTurns
                    /\ Last(msg.content).name \in DOMAIN tools
                    /\ CanReturn(tools[Last(msg.content).name],
                                 Last(msg.content).input)
               ELSE pc' = "calling"
    /\ sent' = Messages(turns)
    /\ nmodel' = nmodel + 1
    /\ log' = Append(log, "model")
    /\ UNCHANGED <<tools, api_tools, ret, exc, base, ntool, transcript, seed,
                   called, failed, probe>>

\* Lines 44-56 and 76, the model asking for a tool only when the tool can
\* answer and the history has room.
ModelAnswers ==
    /\ ModelReturns
    /\ pc' = "dispatching" =>
          /\ Len(turns') + 2 <= MaxTurns
          /\ Last(message'.content).name \in DOMAIN tools
          /\ CanReturn(tools[Last(message'.content).name],
                       Last(message'.content).input)

AnsweredNext ==
    \/ LoadTranscript
    \/ SaveTranscript
    \/ Restart
    \/ PromptAnswered
    \/ ModelAnswers
    \/ ToolReturns

\* Every model call and every tool invocation returns.
SpecAnswered ==
    /\ Init
    /\ [][AnsweredNext]_vars
    /\ WF_vars(ModelAnswers)
    /\ WF_vars(ToolReturns)

(***************************************************************************)
(* The reference tools called on their own (src/scripts/main.py).  A       *)
(* Python str is the sequence of its pieces: the newline character NL and  *)
(* pieces of text that hold no newline.                                    *)
(***************************************************************************)
NL == "\n"

\* s.count("\n")
str_count(s) == Len(SelectSeq(s, LAMBDA c : c = NL))

\* s.split("\n"): the pieces between the newlines, one more than newlines.
str_split(s) ==
    LET at == SelectSeq([i \in 1..Len(s) |-> i], LAMBDA i : s[i] = NL)
        n == Len(at)
    IN  [k \in 1..(n + 1) |->
            SubSeq(s, IF k = 1 THEN 1 ELSE at[k - 1] + 1,
                      IF k = n + 1 THEN Len(s) ELSE at[k] - 1)]

\* "\n".join(parts[lo..hi])
RECURSIVE JoinRange(_, _, _)
JoinRange(parts, lo, hi) ==
    IF lo > hi THEN <<>>
    ELSE IF lo = hi THEN parts[lo]
    ELSE LET mid == (lo + hi) \div 2
         IN  JoinRange(parts, lo, mid) \o <<NL>> \o JoinRange(parts, mid + 1, hi)
str_join(parts) == JoinRange(parts, 1, Len(parts))

\* parts[:n]
Slice(parts, n) == SubSeq(parts, 1, IF n < Len(parts) THEN n ELSE Len(parts))

MAX_RESULTS == 1000

\* The outcome of a call_tool called on its own.
ReturnedStr(s) == [returned |-> s]
RaisedExc(e) == [raised |-> e]

\* The hidden count taken from the number of pieces of the split.
TruncateByPieces(out) ==
    LET nmatch == Len(str_split(out))
    IN  IF nmatch > MAX_RESULTS
        THEN str_join(Slice(str_split(out), MAX_RESULTS))
             \o <<NL, "** OUTPUT TRUNCATED: " \o ToString(nmatch - MAX_RESULTS)
                      \o " matches hidden", NL>>
        ELSE out

\* Lines 179-185: the output cut to MAX_RESULTS lines and a marker line.
Truncate(out) ==
    LET nmatch == str_count(out)
    IN  IF nmatch > MAX_RESULTS
        THEN str_join(Slice(str_split(out), MAX_RESULTS))
             \o <<NL, "** OUTPUT TRUNCATED: " \o ToString(nmatch - MAX_RESULTS)
                      \o " matches hidden", NL>>
        ELSE out

\* Every failure of the process is raised again.
OnProcessErrorRaise(returncode) == RaisedExc("CalledProcessError")

\* Lines 186-190: except subprocess.CalledProcessError
OnProcessError(returncode) ==
    IF returncode = 1 THEN ReturnedStr(<<"<no matches>">>)
    ELSE RaisedExc("CalledProcessError")

\* SearchFiles.call_tool(raw), with rg exiting returncode after writing out.
SearchFiles_call_tool(raw, returncode, out) ==
    IF ~Validates(SearchFiles("linux"), raw) THEN RaisedExc("ValidationError")
    ELSE IF returncode = 0 THEN ReturnedStr(Truncate(out))
    ELSE OnProcessError(returncode)

\* What rg writes for n matching lines: line i and a newline, for i = 1..n.
RgOutput(n) ==
    [i \in 1..(2 * n) |-> IF i % 2 = 1 THEN ToString((i + 1) \div 2) ELSE NL]

\* The numbers of matching lines tried: few, and about MAX_RESULTS.
LineCounts ==
    (0..SearchSlack)
    \cup ((MAX_RESULTS - SearchSlack)..(MAX_RESULTS + SearchSlack))

\* The tree under the root: what each relative path is.  A directory has
\* entries: directories, regular files (size, newlines), others.
FileSystem ==
    [lib |-> [kind |-> "dir",
              entries |-> {[name |-> "zlib", kind |-> "dir"],
                           [name |-> "Makefile", kind |-> "file",
                            bytes |-> 120, lines |-> 7],
                           [name |-> "crypto", kind |-> "dir"],
                           [name |-> "argv_split.c", kind |-> "file",
                            bytes |-> 2048, lines |-> 101],
                           [name |-> "sock", kind |-> "other"]}],
     README |-> [kind |-> "file"]]

\* The order of the names as Python compares str values.
NameOrder == <<"Makefile", "argv_split.c", "crypto", "sock", "zlib">>
NameRank(name) == CHOOSE i \in 1..Len(NameOrder) : NameOrder[i] = name

\* path.exists(), path.is_dir()
Exists(rel) == rel \in DOMAIN FileSystem
IsDir(rel) == Exists(rel) /\ FileSystem[rel].kind = "dir"

\* Line 68: sorted(path.iterdir(), key=lambda p: (not p.is_dir(), p.name))
KeyLess(e, f) ==
    \/ (e.kind = "dir" /\ f.kind # "dir")
    \/ /\ (e.kind = "dir") = (f.kind = "dir")
       /\ NameRank(e.name) < NameRank(f.name)
RECURSIVE Sorted(_)
Sorted(ents) ==
    IF ents = {} THEN <<>>
    ELSE LET e == CHOOSE x \in ents : \A y \in ents \ {x} : KeyLess(x, y)
         IN  <<e>> \o Sorted(ents \ {e})

\* Lines 69-74: the line written for one entry (none for an entry that is
\* neither a directory nor a regular file).
EntryLine(ent) ==
    IF ent.kind = "dir" THEN <<"DIR\t\t" \o ent.name, NL>>
    ELSE IF ent.kind = "file"
    THEN <<ToString(ent.bytes) \o "\t" \o ToString(ent.lines) \o "\t"
           \o ent.name, NL>>
    ELSE <<>>

RECURSIVE EntryLines(_)
EntryLines(ents) ==
    IF ents = <<>> THEN <<>>
    ELSE EntryLine(Head(ents)) \o EntryLines(Tail(ents))

\* Lines 65-74: the listing of one directory.
Listing(rel) ==
    <<"Directory listing: " \o rel \o "/", NL, "BYTES\tLINES\tNAME", NL>>
    \o EntryLines(Sorted(FileSystem[rel].entries))

\* Lines 57-74: what one path adds to the output.
ListOne(rel) ==
    IF ~IsDir(rel)
    THEN IF Exists(rel) THEN <<"Not a directory: " \o rel, NL, NL>>
         ELSE <<"No such file or directory: " \o rel, NL, NL>>
    ELSE Listing(rel)

\* The loop left at the first path that is not a directory.
RECURSIVE ListLoopBreak(_)
ListLoopBreak(paths) ==
    IF paths = <<>> THEN <<>>
    ELSE IF ~IsDir(Head(paths)) THEN ListOne(Head(paths))
    ELSE ListOne(Head(paths)) \o ListLoopBreak(Tail(paths))

\* Lines 56-74: for rel in paths
RECURSIVE ListLoop(_)
ListLoop(paths) ==
    IF paths = <<>> THEN <<>>
    ELSE ListOne(Head(paths)) \o ListLoop(Tail(paths))

\* ListFiles.call_tool(raw); the path argument, a str | list[str], carries
\* its type.
ListFiles_call_tool(raw) ==
    IF ~Validates(ListFiles("linux"), raw) THEN RaisedExc("ValidationError")
    ELSE LET paths == IF IsPyList(raw.path) THEN raw.path.list
                      ELSE <<raw.path.str>>
         IN  ReturnedStr(ListLoop(paths))

\* The relative paths asked for: a directory, a file, a missing path.
RelPaths == {"lib", "README", "enoent"}

ListProbes ==
    [tool : {"ListFiles"},
     raw : {[pattern |-> "printk"]}
           \cup {[path |-> PyStr(rel)] : rel \in RelPaths}
           \cup {[path |-> PyList(l)] :
                    l \in UNION {[1..n -> RelPaths] : n \in 0..MaxPaths}}]

SearchProbes ==
    [tool : {"SearchFiles"}, raw : Inputs, returncode : RgStatus,
     lines : LineCounts]

Probes == SearchProbes \cup ListProbes

\* The state a tool is called in on its own: a Conversation just built.
ToolsInit ==
    /\ tools = DictByName(<<ListFiles("linux"), SearchFiles("linux")>>)
    /\ api_tools = ApiBlocks(<<ListFiles("linux"), SearchFiles("linux")>>)
    /\ turns = <<>>
    /\ pc = "ready"
    /\ ret = NoMessage
    /\ exc = "none"
    /\ base = 0
    /\ nmodel = 0
    /\ ntool = 0
    /\ transcript = NoFile
    /\ seed = NoFile
    /\ sent = <<>>
    /\ message = NoMessage
    /\ called = NoCall
    /\ log = <<>>
    /\ failed = FALSE
    /\ probe \in Probes

Probed == "result" \in DOMAIN probe

\* test_search: SearchFiles(root).call_tool(raw)
SearchCall ==
    /\ probe.tool = "SearchFiles"
    /\ ~Probed
    /\ probe' = [tool |-> probe.tool, raw |-> probe.raw,
                 returncode |-> probe.returncode, lines |-> probe.lines,
                 result |-> SearchFiles_call_tool(probe.raw, probe.returncode,
                                                  RgOutput(probe.lines))]
    /\ UNCHANGED <<tools, api_tools, turns, pc, ret, exc, base, nmodel, ntool,
                   transcript, seed, sent, message, called, log, failed>>

\* test_list: ListFiles(root).call_tool(raw)
ListCall ==
    /\ probe.tool = "ListFiles"
    /\ ~Probed
    /\ probe' = [tool |-> probe.tool, raw |-> probe.raw,
                 result |-> ListFiles_call_tool(probe.raw)]
    /\ UNCHANGED <<tools, api_tools, turns, pc, ret, exc, base, nmodel, ntool,
                   transcript, seed, sent, message, called, log, failed>>

ToolsNext ==
    \/ SearchCall
    \/ ListCall

SpecTools == ToolsInit /\ [][ToolsNext]_vars

(***************************************************************************)
(* Properties.                                                             *)
(***************************************************************************)
\* The content blocks of a turn (none when the content is a str).
Blocks(t) == IF IsPyList(t.content) THEN t.content.list ELSE <<>>

\* The places, after turn i, of the ToolResult blocks that answer id.
ResultsFor(id, i) ==
    {pos \in UNION {{<<k, l>> : l \in 1..Len(Blocks(turns[k]))} :
                        k \in (i + 1)..Len(turns)} :
        LET b == Blocks(turns[pos[1]])[pos[2]]
        IN  IsToolResult(b) /\ b.tool_use_id = id}

\* A step of one Conversation object (not the start of a new process).
SameConversation == ~(pc \in {"returned", "raised"} /\ pc' = "ready")

\* The step appends to turns the user turn that answers the ToolUse block
\* being dispatched with one ToolResult block of the given is_error.
AnswersLast(is_error) ==
    /\ Len(turns') = Len(turns) + 1
    /\ SubSeq(turns', 1, Len(turns)) = turns
    /\ Last(turns').role = "user"
    /\ Len(Blocks(Last(turns'))) = 1
    /\ LET b == Blocks(Last(turns'))[1]
       IN  /\ IsToolResult(b)
           /\ b.tool_use_id = last.id
           /\ b.is_error = is_error

\* C1: whenever a model call is about to be made, every ToolUse block of
\* every assistant turn, in any position, has exactly one ToolResult block
\* with its id later in the history.
C1_EveryToolUseAnswered ==
    pc = "calling" =>
        \A i \in 1..Len(turns) :
            turns[i].role = "assistant" =>
                \A j \in 1..Len(Blocks(turns[i])) :
                    IsToolUse(Blocks(turns[i])[j]) =>
                        Cardinality(ResultsFor(Blocks(turns[i])[j].id, i)) = 1

\* C2: the dispatch of a registered tool never ends user_prompt with an
\* exception, and when call_tool can only fail (its arguments do not
\* validate) the step appends a ToolResult with is_error true and the loop
\* goes on to the next model call.
C2_ToolFaultContained ==
    [][(pc = "dispatching" /\ last.name \in DOMAIN tools) =>
          /\ pc' # "raised"
          /\ (\A rc \in RgStatus :
                 call_tool(tools[last.name], last.input, rc).raised # "none")
             => (pc' = "calling" /\ AnswersLast(TRUE))]_vars

\* C3: when the trailing ToolUse block names a tool that is not in the
\* registry, the step appends a ToolResult for its id with is_error true
\* and the loop goes on to the next model call; no exception escapes.
C3_UnknownToolAnswered ==
    [][(pc = "dispatching" /\ last.name \notin DOMAIN tools) =>
          (pc' = "calling" /\ AnswersLast(TRUE))]_vars

\* C4: within one Conversation the history is append-only: no step makes
\* it shorter and no step changes a turn that is already there.
C4_AppendOnly ==
    [][SameConversation =>
          /\ Len(turns') >= Len(turns)
          /\ \A i \in 1..Len(turns) : turns'[i] = turns[i]]_vars

\* A history that grew through a tool dispatch and a later failure, after an
\* earlier call had returned.
C4_Witness ==
    /\ pc = "raised"
    /\ base >= 2
    /\ Len(turns) = MaxTurns

\* C5: when the first response of a user_prompt call does not end in a
\* ToolUse block, the call has returned that response after exactly one
\* model call and no tool invocation, having appended exactly two turns.
C5_TextEndsTheCall ==
    (/\ pc \in {"calling", "dispatching", "returned", "raised"}
     /\ Len(turns) >= base + 2
     /\ ~IsToolUse(Last(Blocks(turns[base + 2]))))
    => /\ pc = "returned"
       /\ nmodel = 1
       /\ ntool = 0
       /\ Len(turns) = base + 2
       /\ turns[base + 1].role = "user"
       /\ ret = [role |-> turns[base + 2].role,
                 content |-> Blocks(turns[base + 2])]

\* A call that returned at once although an earlier block of the response
\* is a ToolUse.
C5_Witness ==
    /\ pc = "returned"
    /\ nmodel = 1
    /\ Len(turns) = base + 2
    /\ Len(ret.content) = 2
    /\ IsToolUse(ret.content[1])

\* C6: once a process that loaded a transcript has saved again, the saved
\* history is the loaded one followed by new turns: the loaded turns are an
\* unchanged prefix, in the parsed history and in the JSON text.
C6_SeededPrefixKept ==
    (seed # NoFile /\ transcript # seed) =>
        LET old == json_load(seed)
            new == json_load(transcript)
        IN  /\ Len(old) < Len(new)
            /\ SubSeq(new, 1, Len(old)) = old
            /\ new = SubSeq(turns, 1, Len(new))
            /\ SubSeq(transcript, 1, Len(seed) - 1)
                   = SubSeq(seed, 1, Len(seed) - 1)

\* A transcript of an earlier exchange was loaded, the conversation went on
\* by one exchange and was saved again.
C6_Witness ==
    /\ seed # NoFile
    /\ transcript # seed
    /\ Len(json_load(seed)) >= 2
    /\ Len(json_load(transcript)) = Len(json_load(seed)) + 2

\* C7: the history written as JSON and read back is the history: the same
\* turns in order, each with its role and its blocks, their types, ids,
\* is_error flags and text.
C7_RoundTrip == json_load(json_dumps(turns)) = turns

\* A history with a str prompt, a text block, a ToolUse block and a
\* ToolResult block.
C7_Witness ==
    /\ Len(turns) >= 3
    /\ \E i \in 1..Len(turns) : ~IsPyList(turns[i].content)
    /\ \E i \in 1..Len(turns) : \E j \in 1..Len(Blocks(turns[i])) :
           Blocks(turns[i])[j].type = "text"
    /\ \E i \in 1..Len(turns) : \E j \in 1..Len(Blocks(turns[i])) :
           IsToolUse(Blocks(turns[i])[j])
    /\ \E i \in 1..Len(turns) : \E j \in 1..Len(Blocks(turns[i])) :
           IsToolResult(Blocks(turns[i])[j])

\* C8: no user_prompt call enters more tool-dispatch rounds than the
\* configured maximum, here MaxToolRounds: it aborts instead.
C8_DispatchRoundsCapped ==
    ntool + (IF pc = "dispatching" THEN 1 ELSE 0) <= MaxToolRounds

\* C9: the step on which user_prompt fails leaves the history as it was:
\* nothing is removed, changed, reordered or appended twice.
C9_FailureKeepsHistory ==
    [][(pc # "raised" /\ pc' = "raised") => turns' = turns]_vars

\* A model call that failed after a tool round of the same call.
C9_Witness ==
    /\ pc = "raised"
    /\ exc = "APIError"
    /\ Len(turns) = base + 3
    /\ ntool = 1

\* C10: every constructed Conversation was built from tools of distinct
\* names: the schema list has exactly one entry per registry key, with the
\* name, description and input_schema of the tool registered under it.
C10_OneSchemaPerTool ==
    /\ Len(api_tools) = Cardinality(DOMAIN tools)
    /\ \A i, j \in 1..Len(api_tools) :
           api_tools[i].name = api_tools[j].name => i = j
    /\ \A i \in 1..Len(api_tools) :
           /\ api_tools[i].name \in DOMAIN tools
           /\ api_tools[i] = to_api_block(tools[api_tools[i].name])

\* The first n lines of the rg output, each with its newline.
FirstLines(n) == RgOutput(n)

\* C11: a search whose rg output has more than MAX_RESULTS lines returns
\* the first MAX_RESULTS of them, in order, and then one line that reports
\* the number of lines beyond MAX_RESULTS; an output of at most MAX_RESULTS
\* lines is returned as it is, with no marker line.
C11_TruncatedAtCap ==
    (/\ Probed
     /\ probe.tool = "SearchFiles"
     /\ "pattern" \in DOMAIN probe.raw
     /\ probe.returncode = 0)
    => IF probe.lines > MAX_RESULTS
       THEN probe.result =
              ReturnedStr(FirstLines(MAX_RESULTS)
                          \o <<"** OUTPUT TRUNCATED: "
                               \o ToString(probe.lines - MAX_RESULTS)
                               \o " matches hidden", NL>>)
       ELSE probe.result = ReturnedStr(RgOutput(probe.lines))

\* A search of two lines more than the cap has been made.
C11_Witness ==
    /\ Probed
    /\ probe.tool = "SearchFiles"
    /\ "pattern" \in DOMAIN probe.raw
    /\ probe.returncode = 0
    /\ probe.lines = MAX_RESULTS + 2
    /\ "returned" \in DOMAIN probe.result
    /\ str_count(probe.result.returned) = MAX_RESULTS + 1

\* C12: when rg exits with status 1 the search returns the literal
\* "<no matches>" as its value and raises nothing.
C12_NoMatchesSentinel ==
    (/\ Probed
     /\ probe.tool = "SearchFiles"
     /\ "pattern" \in DOMAIN probe.raw
     /\ probe.returncode = 1)
    => probe.result = ReturnedStr(<<"<no matches>">>)

\* A search that matched nothing has been made.
C12_Witness ==
    /\ Probed
    /\ probe.tool = "SearchFiles"
    /\ "pattern" \in DOMAIN probe.raw
    /\ probe.returncode = 1
    /\ "returned" \in DOMAIN probe.result

\* The paths of a list_paths request, in the order given.
PathsOf(raw) == IF IsPyList(raw.path) THEN raw.path.list ELSE <<raw.path.str>>

\* What path rel must add to the output of list_paths.
Contribution(rel) ==
    IF rel \notin DOMAIN FileSystem
    THEN <<"No such file or directory: " \o rel, NL, NL>>
    ELSE IF FileSystem[rel].kind # "dir"
    THEN <<"Not a directory: " \o rel, NL, NL>>
    ELSE Listing(rel)

\* C13: list_paths over any paths returns, and what it returns is made of
\* one part per path in the order given: the "No such file or directory"
\* message for a missing path, the "Not a directory" message for a path
\* that is no directory, the listing for a directory.
C13_OnePartPerPath ==
    (/\ Probed
     /\ probe.tool = "ListFiles"
     /\ "path" \in DOMAIN probe.raw)
    => /\ "returned" \in DOMAIN probe.result
       /\ probe.result.returned
            = Flatten([i \in 1..Len(PathsOf(probe.raw)) |->
                          Contribution(PathsOf(probe.raw)[i])])
       /\ \A i \in 1..Len(PathsOf(probe.raw)) :
            IsDir(PathsOf(probe.raw)[i]) =>
                Contribution(PathsOf(probe.raw)[i])[1]
                    = "Directory listing: " \o PathsOf(probe.raw)[i] \o "/"

\* A missing path followed by a directory has been listed.
C13_Witness ==
    /\ Probed
    /\ probe.tool = "ListFiles"
    /\ probe.raw = [path |-> PyList(<<"enoent", "lib">>)]
    /\ "returned" \in DOMAIN probe.result
    /\ Len(probe.result.returned) > 3

\* Turn i of history h is an assistant turn whose final block asks for a tool.
AsksTool(h, i) ==
    /\ h[i].role = "assistant"
    /\ Blocks(h[i]) # <<>>
    /\ IsToolUse(Last(Blocks(h[i])))

\* Turn i + 1 of history h is the user turn with the ToolResult for turn i.
ResultFollows(h, i) ==
    /\ i < Len(h)
    /\ h[i + 1].role = "user"
    /\ \E j \in 1..Len(Blocks(h[i + 1])) :
          /\ IsToolResult(Blocks(h[i + 1])[j])
          /\ Blocks(h[i + 1])[j].tool_use_id = Last(Blocks(h[i])).id

\* C14: with user_prompt calls made one after another on one Conversation,
\* no model call is given a history in which an assistant turn ending in a
\* ToolUse is not immediately followed by the user turn with its ToolResult.
C14_SerializedCallsPaired ==
    \A i \in 1..Len(sent) : AsksTool(sent, i) => ResultFollows(sent, i)

\* C15: every model call is given the whole history, the turns of earlier
\* calls and of a loaded transcript included, and the last turn given is a
\* user turn: the prompt on the first call of a user_prompt, the turn with
\* the ToolResult on each later call.
C15_WholeHistorySent ==
    [][nmodel' = nmodel + 1 =>
        /\ sent' = turns
        /\ Len(sent') >= base + 1
        /\ SubSeq(sent', 1, base) = SubSeq(turns, 1, base)
        /\ (seed # NoFile =>
              /\ Len(json_load(seed)) <= base
              /\ SubSeq(sent', 1, Len(json_load(seed))) = json_load(seed))
        /\ Last(sent').role = "user"
        /\ (nmodel = 0 =>
              /\ Len(sent') = base + 1
              /\ Last(sent').content \in {PyStr(p) : p \in Prompts})
        /\ (nmodel > 0 =>
              /\ Len(sent') > base + 1
              /\ Len(Blocks(Last(sent'))) = 1
              /\ IsToolResult(Blocks(Last(sent'))[1]))]_vars

\* The first model call of a prompt made on top of a loaded transcript.
C15_Witness ==
    /\ seed # NoFile
    /\ base > 0
    /\ nmodel = 1
    /\ Len(sent) = base + 1
    /\ SubSeq(sent, 1, base) = json_load(seed)

\* The assistant turns of the current call whose final block is a ToolUse.
AskingTurns == {i \in (base + 1)..Len(turns) : AsksTool(turns, i)}

\* C16: a response is appended as one assistant turn holding all of its
\* blocks in the order returned; the call goes to dispatch exactly when the
\* final block is a ToolUse and returns otherwise, whatever the earlier
\* blocks are; a tool is invoked only for the final block of the last
\* response, so never more often than responses ended in a ToolUse.
C16_FinalBlockDecides ==
    /\ [][(pc = "calling" /\ pc' \in {"dispatching", "returned"}) =>
            /\ Len(turns') = Len(turns) + 1
            /\ SubSeq(turns', 1, Len(turns)) = turns
            /\ Last(turns').role = "assistant"
            /\ Blocks(Last(turns')) = message'.content
            /\ (pc' = "dispatching") = IsToolUse(Last(message'.content))
            /\ (pc' = "returned") = ~IsToolUse(Last(message'.content))
            /\ ntool' = ntool]_vars
    /\ [][ntool' = ntool + 1 =>
            /\ pc = "dispatching"
            /\ Last(turns).role = "assistant"
            /\ Blocks(Last(turns)) = message.content
            /\ IsToolUse(Last(message.content))
            /\ called'.input = Last(message.content).input]_vars
    /\ [](ntool <= Cardinality(AskingTurns))

\* A response with a ToolUse first and a text block last has been appended
\* whole and has ended the call without any tool invoked.
C16_Witness ==
    /\ pc = "returned"
    /\ Len(message.content) = 2
    /\ IsToolUse(message.content[1])
    /\ ~IsToolUse(message.content[2])
    /\ Blocks(Last(turns)) = message.content
    /\ ntool = 0

\* The values the tool registered under the name asked for can return for
\* the input asked for.
NormalReturns ==
    {call_tool(tools[last.name], last.input, rc).value :
        rc \in {r \in RgStatus :
                   call_tool(tools[last.name], last.input, r).raised = "none"}}

\* C17: when the dispatch of a final ToolUse{id, name, input} with a
\* registered name returns, one tool was invoked, once: the tool registered
\* under name, with input; and the step appends, before any further model
\* call, the user turn holding exactly one ToolResult block with
\* tool_use_id = id and the returned value as content.
C17_OneResultForOneCall ==
    [][(pc = "dispatching" /\ pc' = "calling") =>
        /\ last.name \in DOMAIN tools
        /\ ntool' = ntool + 1
        /\ log' = Append(log, "tool")
        /\ called' = [tool |-> tools[last.name], input |-> last.input]
        /\ AnswersLast(FALSE)
        /\ \E v \in NormalReturns :
              Blocks(Last(turns'))[1].content = PyStr(v)
        /\ nmodel' = nmodel
        /\ sent' = sent]_vars

\* A dispatch has returned and its result turn is the last of the history,
\* with the next model call still to be made.
C17_Witness ==
    /\ pc = "calling"
    /\ ntool = 1
    /\ nmodel = 1
    /\ called = [tool |-> tools["search_files"],
                 input |-> [pattern |-> "printk"]]
    /\ Len(Blocks(Last(turns))) = 1
    /\ IsToolResult(Blocks(Last(turns))[1])
    /\ Blocks(Last(turns))[1].tool_use_id
         = Last(Blocks(turns[Len(turns) - 1])).id

\* C18: with a model and tools that always answer, and a model that comes
\* to a response not ending in a ToolUse, every user_prompt call returns;
\* and a call returns only on a response whose final block is not a
\* ToolUse, so it never returns while every response ends in a ToolUse.
C18_ReturnsWhenModelStops ==
    /\ (pc \in {"calling", "dispatching"}) ~> (pc = "returned")
    /\ [][(pc # "returned" /\ pc' = "returned") =>
            /\ pc = "calling"
            /\ nmodel' = nmodel + 1
            /\ ~IsToolUse(Last(message'.content))
            /\ ret' = message']_vars
    /\ [](pc \in {"calling", "dispatching"} =>
            \A i \in (base + 1)..Len(turns) :
                turns[i].role = "assistant" => AsksTool(turns, i))

\* A call that went through a tool round has returned.
C18_Witness ==
    /\ pc = "returned"
    /\ ntool = 1
    /\ nmodel = 2
    /\ ~failed

\* C19: from an empty history and with no call having failed, the turns
\* alternate user, assistant, user, assistant in every state; and when
\* user_prompt has returned the history has even length, its last turn is
\* the assistant turn returned, and that turn's final block is no ToolUse.
C19_TurnsAlternate ==
    (seed = NoFile /\ ~failed) =>
        /\ \A i \in 1..Len(turns) :
              turns[i].role = IF i % 2 = 1 THEN "user" ELSE "assistant"
        /\ pc = "returned" =>
              /\ Len(turns) % 2 = 0
              /\ Len(turns) > 0
              /\ ret.role = "assistant"
              /\ Last(turns) = MessageParam(ret.role, PyList(ret.content))
              /\ ~IsToolUse(Last(ret.content))

\* The second prompt on one Conversation built empty has returned.
C19_Witness ==
    /\ seed = NoFile
    /\ ~failed
    /\ pc = "returned"
    /\ base = 2
    /\ Len(turns) = 4

\* C20: a user_prompt call that has returned after k tool rounds made k + 1
\* model calls and k tool invocations, in turn, a model call first and
\* last, and appended 2k + 2 turns to the history it found.
C20_CallsAndTurnsCounted ==
    pc = "returned" =>
        /\ nmodel = ntool + 1
        /\ Len(log) = 2 * ntool + 1
        /\ \A i \in 1..Len(log) :
              log[i] = IF i % 2 = 1 THEN "model" ELSE "tool"
        /\ Len(turns) = base + 2 * ntool + 2

\* A call has returned after one tool round.
C20_Witness ==
    /\ pc = "returned"
    /\ ntool = 1
    /\ log = <<"model", "tool", "model">>
    /\ Len(turns) = base + 4

====
